---- MODULE Spec2Model ----
(***************************************************************************)
(* The data logger of examples/ExFatLogger/ExFatLogger.ino: logData(), the *)
(* acquisition loop with its ring buffer (fifoData, fifoHead, fifoTail,    *)
(* fifoCount), the overrun accounting, the deadline counter logTime, and   *)
(* the record codec logRecord() / printRecord().                           *)
(*                                                                         *)
(* One iteration of the while(1) loop of logData() is the sequence         *)
(*   advance -> wait -> produce -> poll -> (write) -> advance              *)
(* of program positions held in pc.  The SD card (isBusy, write), the      *)
(* clock (micros), the serial line (Serial.available) and the ADC          *)
(* (analogRead) are the environment.                                       *)
(***************************************************************************)
EXTENDS Integers, Sequences, FiniteSets, TLC

VARIABLES
    pc,                 \* position in logData(): advance, wait, produce, poll,
                        \* write, teardown, done, halted (codec_* in SpecCodec)
    FIFO_SIZE_SECTORS,  \* the build's #define (lines 47-56), fixed at Init
    fifoData,           \* data_t fifoData[FIFO_DIM]
    fifoCount,
    fifoHead,
    fifoTail,
    overrun,            \* uint16_t pending overrun streak
    maxOverrun,
    totalOverrun,
    maxFifoCount,
    delta,              \* int32_t jitter
    maxDelta,
    logTime,            \* uint32_t due time, as <<high half, low half>>
    now,                \* the microsecond clock read by micros(), same form
    binFile,            \* the ExFile: open, size (extent), pos, data
    serialAvail,        \* Serial.available(): the operator typed a character
    errMsg,             \* the message of error(s), "" while none
    nr,                 \* printRecord's static record number
    printed,            \* the last line printRecord produced
    iter,               \* history: executions of line 278 so far
    logTime0,           \* history: the value logTime was initialised with
    bytesWritten,       \* history: sum of nb over the successful writes
    everBusy,           \* history: isBusy() has answered true in the loop
    stall,              \* history: the current run of busy answers
    lastWrite,          \* history: the last request handed to binFile.write
    elapsed,            \* history: microseconds since line 275, not wrapped
    pushed,             \* history: the records pushed, each with the index
                        \* of the iteration that pushed it and the nr that
                        \* printRecord has when it comes to the record
    peakCount           \* history: the largest value fifoCount has held

vars == <<pc, FIFO_SIZE_SECTORS, fifoData, fifoCount, fifoHead, fifoTail,
          overrun, maxOverrun, totalOverrun, maxFifoCount, delta, maxDelta,
          logTime, now, binFile, serialAvail, errMsg, nr, printed, iter,
          logTime0, bytesWritten, everBusy, stall, lastWrite, elapsed,
          pushed, peakCount>>

----------------------------------------------------------------------------
(* Bounds of the model *)

\* Iterations of the loop explored under Spec.
MaxIter == 10

\* Iterations of the loop explored under SpecStall, where the card stays busy
\* from the start of the session: enough to pass the overrun ceiling.
MaxStall == 4200

\* Iterations of the loop that may start before the operator types the
\* stop character under SpecLive; once it is typed the loop runs on freely.
MaxLiveIter == 1

\* Largest jitter (micros() - logTime when the busy-wait of line 287 exits).
MaxJitter == 1

\* FIFO_SIZE_SECTORS ranges over 1..MaxSectors (the source has 1, 4 and 16).
MaxSectors == 2

\* sizeof(data_t) and ADC_COUNT come from ExFatLogger.h, which the user
\* replaces for the sensors at hand; 256 bytes make a sector hold 2 records.
SIZEOF_DATA_T == 256

ADC_COUNT == 2

----------------------------------------------------------------------------
(* Program constants *)

LOG_INTERVAL_USEC == 2000

PREALLOCATE_SIZE == 1073741824

SECTOR_BYTES == 512

OVERRUN_TAG == 32768

OVERRUN_MASK == 32767

OVERRUN_LIMIT == 4095

ANALOG_RANGE == 1024

UNINIT == -1

FIFO_DIM == (SECTOR_BYTES * FIFO_SIZE_SECTORS) \div SIZEOF_DATA_T

MAX_WRITE == SECTOR_BYTES \div SIZEOF_DATA_T

----------------------------------------------------------------------------
(* Machine arithmetic *)

Half == 65536

\* uint16_t
U16(x) == x % Half

\* size_t (16 bits on AVR; every wider size_t wraps the same way below zero)
SizeT(x) == x % Half

\* uint32_t values are pairs <<high, low>> of 16-bit halves
U32(x) == <<(x \div Half) % Half, x % Half>>

Add32(a, b) ==
    LET lo == a[2] + b[2]
        hi == a[1] + b[1] + (lo \div Half)
    IN  <<hi % Half, lo % Half>>

Sub32_NoBorrow(a, b) == <<(a[1] - b[1]) % Half, (a[2] - b[2]) % Half>>

Sub32(a, b) ==
    LET lo == a[2] - b[2]
        hi == a[1] - b[1] - (IF lo < 0 THEN 1 ELSE 0)
    IN  <<hi % Half, lo % Half>>

\* the conversion uint32_t -> int32_t of `delta = micros() - logTime`
Int32(a) ==
    IF a[1] >= Half \div 2
    THEN (a[1] - Half) * Half + a[2]
    ELSE a[1] * Half + a[2]

RECURSIVE BitAnd(_, _)
BitAnd(a, b) ==
    IF a = 0 \/ b = 0 THEN 0
    ELSE (a % 2) * (b % 2) + 2 * BitAnd(a \div 2, b \div 2)

RECURSIVE BitOr(_, _)
BitOr(a, b) ==
    IF a = 0 THEN b
    ELSE IF b = 0 THEN a
    ELSE (IF a % 2 = 1 \/ b % 2 = 1 THEN 1 ELSE 0)
         + 2 * BitOr(a \div 2, b \div 2)

Min(a, b) == IF a < b THEN a ELSE b

----------------------------------------------------------------------------
(* Record codec: logRecord(), printRecord() *)

Channels == 0 .. (ADC_COUNT - 1)

\* analogRead(i) in the iteration it: a ramp, so that every sample differs
\* from its neighbours and a record can be followed through the buffer.
AnalogRead(i, it) == (it * ADC_COUNT + i) % ANALOG_RANGE

LogRecord_NoIncrement(data, ov, it) ==
    IF ov # 0
    THEN [data EXCEPT ![0] = U16(BitOr(OVERRUN_TAG, ov))]
    ELSE [i \in Channels |-> AnalogRead(i, it)]

LogRecord(data, ov, it) ==
    IF ov # 0
    THEN [data EXCEPT ![0] = U16(BitOr(OVERRUN_TAG, U16(ov + 1)))]
    ELSE [i \in Channels |-> AnalogRead(i, it)]

IsOverrun(data) == BitAnd(data[0], OVERRUN_TAG) # 0

PrintRecord_MarkerAsOne(n, data) ==
    IF IsOverrun(data)
    THEN LET cnt == BitAnd(data[0], OVERRUN_MASK)
         IN  [nr |-> n + 1, line |-> <<"overuns", cnt>>]
    ELSE [nr |-> n + 1, line |-> <<"rec", n, data>>]

\* printRecord(pr, data) with data # nullptr: the new nr and the line printed
PrintRecord(n, data) ==
    IF IsOverrun(data)
    THEN LET cnt == BitAnd(data[0], OVERRUN_MASK)
         IN  [nr |-> n + cnt, line |-> <<"overuns", cnt>>]
    ELSE [nr |-> n + 1, line |-> <<"rec", n, data>>]

----------------------------------------------------------------------------
(* The file: open / preAllocate / write / truncate / close of ExFile *)

FileCreate ==
    [open |-> TRUE, size |-> PREALLOCATE_SIZE, pos |-> 0, data |-> <<>>]

FileWrite(f, recs, nb) ==
    [f EXCEPT !.pos = @ + nb, !.data = @ \o recs]

FileShortWrite(f, n) == [f EXCEPT !.pos = @ + n]

FileTruncate(f) == [f EXCEPT !.size = f.pos]

FileClose(f) == [f EXCEPT !.open = FALSE]

----------------------------------------------------------------------------
(* Ring buffer arithmetic of logData() *)

CanPush_OffByOne(count) == count <= FIFO_DIM

CanPush_OneShort(count) == count < FIFO_DIM - 1

CanPush(count) == count < FIFO_DIM

NextHead_NoWrap(head) == head + 1

NextHead(head) == IF head < FIFO_DIM - 1 THEN head + 1 ELSE 0

RunLength_FullAsEmpty(head, tail, count) ==
    IF head >= tail THEN count ELSE FIFO_DIM - tail

RunLength_ToArrayEnd(head, tail, count) == FIFO_DIM - tail

RunLength(head, tail, count) ==
    IF head > tail THEN count ELSE FIFO_DIM - tail

LimitWrite_NoCap(nw) == nw

LimitWrite(nw) == IF nw > MAX_WRITE THEN MAX_WRITE ELSE nw

NextTail_LateWrap(tail, nw) == IF tail + nw <= FIFO_DIM THEN tail + nw ELSE 0

NextTail(tail, nw) == IF tail + nw < FIFO_DIM THEN tail + nw ELSE 0

CommitCount_Forgotten(count, nw) == count

\* fifoCount -= nw
CommitCount(count, nw) == SizeT(count - nw)

\* &fifoData[tail] .. &fifoData[tail + nw - 1] as binFile.write reads them;
\* past the end of the array it would read whatever follows it in memory
Slots(tail, nw) ==
    [k \in 1 .. nw |->
        IF tail + k - 1 < FIFO_DIM
        THEN fifoData[tail + k - 1]
        ELSE [i \in Channels |-> UNINIT]]

NextLogTime_FromClock(due, clock) == Add32(clock, U32(LOG_INTERVAL_USEC))

NextLogTime(due, clock) == Add32(due, U32(LOG_INTERVAL_USEC))

OverLimit_OneLate(ov) == ov > OVERRUN_LIMIT + 1

OverLimit_FullWidth(ov) == ov > Half - 1

OverLimit(ov) == ov > OVERRUN_LIMIT

----------------------------------------------------------------------------
(* Environment *)

\* micros() at line 275: a session may start anywhere in the counter's
\* range, also shortly before it wraps.
StartTimes == { U32(0), Sub32(U32(0), U32(LOG_INTERVAL_USEC + 1000)) }

\* Time the previous iteration spent after its deadline fired (sampling,
\* writing), seen by micros() at line 281.
WorkCosts == { 0, LOG_INTERVAL_USEC - 1, LOG_INTERVAL_USEC }

NoStall ==
    [n |-> 0, empty |-> FALSE, ov0 |-> 0, tot0 |-> 0, real |-> 0, mark |-> 0]

----------------------------------------------------------------------------
(* State at entry of the loop of logData(), after createBinFile() *)

Init ==
    /\ FIFO_SIZE_SECTORS \in 1 .. MaxSectors
    /\ pc = "advance"
    /\ fifoData = [s \in 0 .. (FIFO_DIM - 1) |-> [i \in Channels |-> UNINIT]]
    /\ fifoCount = 0
    /\ fifoHead = 0
    /\ fifoTail = 0
    /\ overrun = 0
    /\ maxOverrun = 0
    /\ totalOverrun = 0
    /\ maxFifoCount = 0
    /\ delta = 0
    /\ maxDelta = 0
    /\ now \in StartTimes
    /\ logTime = now
    /\ logTime0 = now
    /\ binFile = FileCreate
    /\ serialAvail = FALSE
    /\ errMsg = ""
    /\ nr = 0
    /\ printed = <<>>
    /\ iter = 0
    /\ bytesWritten = 0
    /\ everBusy = FALSE
    /\ stall = NoStall
    /\ lastWrite = [tail |-> 0, nw |-> 0, avail |-> 0]
    /\ elapsed = 0
    /\ pushed = <<>>
    /\ peakCount = 0

ringVars == <<fifoData, fifoCount, fifoHead, fifoTail>>

statVars == <<maxOverrun, totalOverrun, maxFifoCount, maxDelta>>

codecVars == <<nr, printed>>

\* errorHalt(): close the file, then SysCall::halt()
ErrorHalt(msg) ==
    /\ binFile' = FileClose(binFile)
    /\ errMsg' = msg
    /\ pc' = "halted"

\* lines 277-286
NextIteration ==
    /\ pc = "advance"
    /\ \E d \in WorkCosts :
         LET t  == Add32(now, U32(d))
             lt == NextLogTime(logTime, t)
             dl == Int32(Sub32(t, lt))
         IN  /\ now' = t
             /\ logTime' = lt
             /\ delta' = dl
             /\ elapsed' = elapsed + d
             /\ IF dl > 0
                THEN ErrorHalt("Rate too fast")
                ELSE /\ pc' = "wait"
                     /\ UNCHANGED <<binFile, errMsg>>
    /\ iter' = iter + 1
    /\ stall' = IF stall.n = 0
                THEN [n |-> 0, empty |-> (fifoCount = 0), ov0 |-> overrun,
                      tot0 |-> totalOverrun, real |-> 0, mark |-> 0]
                ELSE stall
    /\ UNCHANGED <<FIFO_SIZE_SECTORS, ringVars, overrun, statVars,
                   serialAvail, codecVars, logTime0, bytesWritten, everBusy,
                   lastWrite, pushed, peakCount>>

Advance ==
    /\ iter < MaxIter
    /\ NextIteration

\* the same step in a session whose card has not accepted a write yet
StallAdvance ==
    /\ iter < MaxStall
    /\ bytesWritten = 0
    /\ NextIteration

\* lines 287-289
Wait ==
    /\ pc = "wait"
    /\ IF delta < 0
       THEN \E j \in 0 .. MaxJitter :
              /\ now' = Add32(logTime, U32(j))
              /\ delta' = Int32(Sub32(now', logTime))
              /\ elapsed' = iter * LOG_INTERVAL_USEC + j
       ELSE UNCHANGED <<now, delta, elapsed>>
    /\ pc' = "produce"
    /\ UNCHANGED <<FIFO_SIZE_SECTORS, ringVars, overrun, statVars, logTime,
                   binFile, serialAvail, errMsg, codecVars, iter, logTime0,
                   bytesWritten, everBusy, stall, lastWrite, pushed,
                   peakCount>>

\* printRecord's nr once it has printed every record pushed so far
NrPushed ==
    IF pushed = <<>>
    THEN 0
    ELSE PrintRecord(pushed[Len(pushed)].nr, pushed[Len(pushed)].rec).nr

\* lines 291-305
PushRecord ==
    /\ pc = "produce"
    /\ CanPush(fifoCount)
    /\ fifoData' = [fifoData EXCEPT
                      ![fifoHead] = LogRecord(@, overrun, iter - 1)]
    /\ fifoHead' = NextHead(fifoHead)
    /\ fifoCount' = SizeT(fifoCount + 1)
    /\ pushed' = Append(pushed, [rec |-> fifoData'[fifoHead], it |-> iter - 1,
                                 nr |-> NrPushed])
    /\ peakCount' = IF fifoCount' > peakCount THEN fifoCount' ELSE peakCount
    /\ maxOverrun' = IF overrun # 0 /\ overrun > maxOverrun
                     THEN overrun ELSE maxOverrun
    /\ overrun' = 0
    /\ stall' = IF overrun # 0
                THEN [stall EXCEPT !.mark = @ + 1]
                ELSE [stall EXCEPT !.real = @ + 1]
    /\ pc' = "poll"
    /\ UNCHANGED <<FIFO_SIZE_SECTORS, fifoTail, totalOverrun, maxFifoCount,
                   maxDelta, delta, logTime, now, binFile, serialAvail,
                   errMsg, codecVars, iter, logTime0, bytesWritten, everBusy,
                   lastWrite, elapsed>>

\* lines 306-315
CountOverrun ==
    /\ pc = "produce"
    /\ ~CanPush(fifoCount)
    /\ totalOverrun' = totalOverrun + 1
    /\ overrun' = U16(overrun + 1)
    /\ IF OverLimit(overrun')
       THEN ErrorHalt("too many overruns")
       ELSE /\ pc' = "poll"
            /\ UNCHANGED <<binFile, errMsg>>
    /\ UNCHANGED <<FIFO_SIZE_SECTORS, ringVars, maxOverrun, maxFifoCount,
                   maxDelta, delta, logTime, now, serialAvail, codecVars,
                   iter, logTime0, bytesWritten, everBusy, stall, lastWrite,
                   elapsed, pushed, peakCount>>

CardBusy_PollsStop ==
    /\ pc = "poll"
    /\ maxDelta' = IF delta > maxDelta THEN delta ELSE maxDelta
    /\ everBusy' = TRUE
    /\ stall' = [stall EXCEPT !.n = @ + 1]
    /\ pc' = IF serialAvail THEN "teardown" ELSE "advance"
    /\ UNCHANGED <<FIFO_SIZE_SECTORS, ringVars, overrun, maxOverrun,
                   totalOverrun, maxFifoCount, delta, logTime, now, binFile,
                   serialAvail, errMsg, codecVars, iter, logTime0,
                   bytesWritten, lastWrite, elapsed, pushed, peakCount>>

\* lines 317-322, sd.card()->isBusy() answers true
CardBusy ==
    /\ pc = "poll"
    /\ maxDelta' = IF delta > maxDelta THEN delta ELSE maxDelta
    /\ everBusy' = TRUE
    /\ stall' = [stall EXCEPT !.n = @ + 1]
    /\ pc' = "advance"
    /\ UNCHANGED <<FIFO_SIZE_SECTORS, ringVars, overrun, maxOverrun,
                   totalOverrun, maxFifoCount, delta, logTime, now, binFile,
                   serialAvail, errMsg, codecVars, iter, logTime0,
                   bytesWritten, lastWrite,
                   elapsed, pushed, peakCount>>

\* lines 317-322, sd.card()->isBusy() answers false
CardIdle ==
    /\ pc = "poll"
    /\ maxDelta' = IF delta > maxDelta THEN delta ELSE maxDelta
    /\ stall' = NoStall
    /\ pc' = "write"
    /\ UNCHANGED <<FIFO_SIZE_SECTORS, ringVars, overrun, maxOverrun,
                   totalOverrun, maxFifoCount, delta, logTime, now, binFile,
                   serialAvail, errMsg, codecVars, iter, logTime0,
                   bytesWritten, everBusy, lastWrite,
                   elapsed, pushed, peakCount>>

WriteData_SampleAfterPop ==
    /\ pc = "write"
    /\ LET nw == LimitWrite(RunLength(fifoHead, fifoTail, fifoCount))
           nb == nw * SIZEOF_DATA_T
       IN  /\ binFile' = FileWrite(binFile, Slots(fifoTail, nw), nb)
           /\ bytesWritten' = bytesWritten + nb
           /\ lastWrite' = [tail |-> fifoTail, nw |-> nw,
                            avail |-> Min(fifoCount, FIFO_DIM - fifoTail)]
           /\ fifoTail' = NextTail(fifoTail, nw)
           /\ fifoCount' = CommitCount(fifoCount, nw)
           /\ maxFifoCount' = IF fifoCount' > maxFifoCount
                              THEN fifoCount' ELSE maxFifoCount
    /\ pc' = IF serialAvail THEN "teardown" ELSE "advance"
    /\ UNCHANGED <<FIFO_SIZE_SECTORS, fifoData, fifoHead, overrun, maxOverrun,
                   totalOverrun, maxDelta, delta, logTime, now, serialAvail,
                   errMsg, codecVars, iter, logTime0, everBusy, stall,
                   elapsed, pushed, peakCount>>

\* lines 323-344, binFile.write returns nb
WriteData ==
    /\ pc = "write"
    /\ LET nw == LimitWrite(RunLength(fifoHead, fifoTail, fifoCount))
           nb == nw * SIZEOF_DATA_T
       IN  /\ binFile' = FileWrite(binFile, Slots(fifoTail, nw), nb)
           /\ bytesWritten' = bytesWritten + nb
           /\ lastWrite' = [tail |-> fifoTail, nw |-> nw,
                            avail |-> Min(fifoCount, FIFO_DIM - fifoTail)]
           /\ fifoTail' = NextTail(fifoTail, nw)
           /\ maxFifoCount' = IF fifoCount > maxFifoCount
                              THEN fifoCount ELSE maxFifoCount
           /\ fifoCount' = CommitCount(fifoCount, nw)
    /\ pc' = IF serialAvail THEN "teardown" ELSE "advance"
    /\ UNCHANGED <<FIFO_SIZE_SECTORS, fifoData, fifoHead, overrun, maxOverrun,
                   totalOverrun, maxDelta, delta, logTime, now, serialAvail,
                   errMsg, codecVars, iter, logTime0, everBusy, stall,
                   elapsed, pushed, peakCount>>

WriteFail_Ignored ==
    /\ pc = "write"
    /\ LET nw == LimitWrite(RunLength(fifoHead, fifoTail, fifoCount))
           nb == nw * SIZEOF_DATA_T
       IN  /\ \E n \in {0, nb - 1} : binFile' = FileShortWrite(binFile, n)
           /\ lastWrite' = [tail |-> fifoTail, nw |-> nw,
                            avail |-> Min(fifoCount, FIFO_DIM - fifoTail)]
           /\ fifoTail' = NextTail(fifoTail, nw)
           /\ maxFifoCount' = IF fifoCount > maxFifoCount
                              THEN fifoCount ELSE maxFifoCount
           /\ fifoCount' = CommitCount(fifoCount, nw)
    /\ pc' = IF serialAvail THEN "teardown" ELSE "advance"
    /\ UNCHANGED <<FIFO_SIZE_SECTORS, fifoData, fifoHead, overrun, maxOverrun,
                   totalOverrun, maxDelta, delta, logTime, now, serialAvail,
                   errMsg, codecVars, iter, logTime0, bytesWritten, everBusy,
                   stall, elapsed, pushed, peakCount>>

\* lines 327-331, binFile.write returns something else than nb
WriteFail ==
    /\ pc = "write"
    /\ LET nw == LimitWrite(RunLength(fifoHead, fifoTail, fifoCount))
           nb == nw * SIZEOF_DATA_T
       IN  \E n \in {0, nb - 1} :
             /\ binFile' = FileClose(FileShortWrite(binFile, n))
             /\ lastWrite' = [tail |-> fifoTail, nw |-> nw,
                              avail |-> Min(fifoCount, FIFO_DIM - fifoTail)]
    /\ errMsg' = "write binFile failed"
    /\ pc' = "halted"
    /\ UNCHANGED <<FIFO_SIZE_SECTORS, ringVars, overrun, statVars, delta,
                   logTime, now, serialAvail, codecVars, iter, logTime0,
                   bytesWritten, everBusy, stall,
                   elapsed, pushed, peakCount>>

Teardown_NoTruncate ==
    /\ pc = "teardown"
    /\ pc' = "done"
    /\ UNCHANGED <<FIFO_SIZE_SECTORS, ringVars, overrun, statVars, delta,
                   logTime, now, binFile, serialAvail, errMsg, codecVars,
                   iter, logTime0, bytesWritten, everBusy, stall, lastWrite,
                   elapsed, pushed, peakCount>>

\* lines 346-350: binFile.truncate(); binFile.sync();
Teardown ==
    /\ pc = "teardown"
    /\ binFile' = FileTruncate(binFile)
    /\ pc' = "done"
    /\ UNCHANGED <<FIFO_SIZE_SECTORS, ringVars, overrun, statVars, delta,
                   logTime, now, serialAvail, errMsg, codecVars, iter,
                   logTime0, bytesWritten, everBusy, stall, lastWrite,
                   elapsed, pushed, peakCount>>

\* the operator types a character: Serial.available() becomes true
TypeChar ==
    /\ pc \notin {"teardown", "done", "halted"}
    /\ ~serialAvail
    /\ serialAvail' = TRUE
    /\ UNCHANGED <<pc, FIFO_SIZE_SECTORS, ringVars, overrun, statVars, delta,
                   logTime, now, binFile, errMsg, codecVars, iter, logTime0,
                   bytesWritten, everBusy, stall, lastWrite,
                   elapsed, pushed, peakCount>>

Next ==
    \/ Advance
    \/ Wait
    \/ PushRecord
    \/ CountOverrun
    \/ CardBusy
    \/ CardIdle
    \/ WriteData
    \/ WriteFail
    \/ Teardown
    \/ TypeChar

Spec == Init /\ [][Next]_vars

\* The stall scenario: the card is busy from the first poll on, for as long
\* as the environment likes; the first idle answer ends the exploration.
NextStall ==
    \/ StallAdvance
    \/ Wait
    \/ PushRecord
    \/ CountOverrun
    \/ CardBusy
    \/ CardIdle
    \/ WriteData

SpecStall == Init /\ [][NextStall]_vars

\* The stopped session: the operator types the stop character in one of the
\* first iterations, and from then on the loop runs for as long as the card
\* and the clock make it run.
InitLive ==
    /\ Init
    /\ FIFO_SIZE_SECTORS = MaxSectors
    /\ now = U32(0)

LiveAdvance ==
    /\ iter < MaxStall
    /\ serialAvail \/ iter < MaxLiveIter
    /\ NextIteration

\* the steps of the program itself; the typing of a character is the
\* operator's
LoopStep ==
    \/ LiveAdvance
    \/ Wait
    \/ PushRecord
    \/ CountOverrun
    \/ CardBusy
    \/ CardIdle
    \/ WriteData
    \/ WriteFail
    \/ Teardown

\* the busy-wait of lines 287-289 ends on the due time: timing faults are
\* left to Spec
Punctual == pc = "wait" => delta' = 0

NextLive ==
    \/ LoopStep /\ Punctual
    \/ TypeChar

\* logData() runs alone on the processor and none of its calls blocks for
\* ever (the clock advances, isBusy() and write() return): a step of the
\* loop that is possible is taken.
SpecLive == InitLive /\ [][NextLive]_vars /\ WF_vars(LoopStep)

----------------------------------------------------------------------------
(* The record codec on its own: logRecord(data, overrun) for every uint16_t *)
(* overrun, on a fresh slot and on a slot that held a sample, and then     *)
(* printRecord() on the record it left.                                    *)

InitCodec ==
    /\ FIFO_SIZE_SECTORS = 1
    /\ pc = "codec"
    /\ overrun \in 0 .. (Half - 1)
    /\ fifoData \in
         { [s \in 0 .. (FIFO_DIM - 1) |-> [i \in Channels |-> UNINIT]],
           [s \in 0 .. (FIFO_DIM - 1) |-> [i \in Channels |-> AnalogRead(i, s)]] }
    /\ fifoCount = 0
    /\ fifoHead = 0
    /\ fifoTail = 0
    /\ maxOverrun = 0
    /\ totalOverrun = 0
    /\ maxFifoCount = 0
    /\ delta = 0
    /\ maxDelta = 0
    /\ now = U32(0)
    /\ logTime = now
    /\ logTime0 = now
    /\ binFile = FileCreate
    /\ serialAvail = FALSE
    /\ errMsg = ""
    /\ nr = 0
    /\ printed = <<>>
    /\ iter = 0
    /\ bytesWritten = 0
    /\ everBusy = FALSE
    /\ stall = NoStall
    /\ lastWrite = [tail |-> 0, nw |-> 0, avail |-> 0]
    /\ elapsed = 0
    /\ pushed = <<>>
    /\ peakCount = 0

\* logRecord(fifoData + fifoHead, overrun), line 293
CodecLog ==
    /\ pc = "codec"
    /\ fifoData' = [fifoData EXCEPT ![fifoHead] = LogRecord(@, overrun, iter)]
    /\ pc' = "codec_logged"
    /\ UNCHANGED <<FIFO_SIZE_SECTORS, fifoCount, fifoHead, fifoTail, overrun,
                   statVars, delta, logTime, now, binFile, serialAvail,
                   errMsg, codecVars, iter, logTime0, bytesWritten, everBusy,
                   stall, lastWrite,
                   elapsed, pushed, peakCount>>

\* printRecord(&csvFile, &binData[i]), line 194
CodecPrint ==
    /\ pc = "codec_logged"
    /\ LET r == PrintRecord(nr, fifoData[fifoHead])
       IN  /\ nr' = r.nr
           /\ printed' = r.line
    /\ pc' = "codec_printed"
    /\ UNCHANGED <<FIFO_SIZE_SECTORS, ringVars, overrun, statVars, delta,
                   logTime, now, binFile, serialAvail, errMsg, iter, logTime0,
                   bytesWritten, everBusy, stall, lastWrite,
                   elapsed, pushed, peakCount>>

NextCodec ==
    \/ CodecLog
    \/ CodecPrint

SpecCodec == InitCodec /\ [][NextCodec]_vars

----------------------------------------------------------------------------
(* Claims *)

\* the records of the n slots from tail on, round the end of the array
Buffered(tail, n) ==
    [k \in 1 .. n |-> fifoData[(tail + k - 1) % FIFO_DIM]]

\* the records of the pushed history, without the iteration indexes
PushedRecs == [k \in 1 .. Len(pushed) |-> pushed[k].rec]

\* C1: at every point of every iteration of logData, whatever the card
\* answers, 0 <= fifoCount <= FIFO_DIM and fifoHead and fifoTail lie in
\* [0, FIFO_DIM): the count neither exceeds the capacity nor wraps below 0.
C1_FifoBounds ==
    /\ fifoCount \in 0 .. FIFO_DIM
    /\ fifoHead \in 0 .. (FIFO_DIM - 1)
    /\ fifoTail \in 0 .. (FIFO_DIM - 1)

\* the buffer is full again after head and tail have gone round the array
C1_Witness ==
    /\ fifoCount = FIFO_DIM
    /\ fifoHead = fifoTail
    /\ fifoTail > 0
    /\ bytesWritten > 0
    /\ totalOverrun > 0

\* C2: the producer phase of an iteration that finds the buffer full
\* (fifoCount = FIFO_DIM) pushes nothing: fifoHead, fifoTail, fifoCount and
\* every slot of fifoData are unchanged by it, and of the counters only
\* overrun and totalOverrun change (each by one).
C2_FullPushFrame ==
    [][ (pc = "produce" /\ fifoCount = FIFO_DIM /\ pc' # "produce")
        => /\ UNCHANGED ringVars
           /\ UNCHANGED <<maxOverrun, maxFifoCount, maxDelta, logTime,
                          bytesWritten>>
           /\ binFile'.data = binFile.data
           /\ totalOverrun' = totalOverrun + 1
           /\ overrun' = overrun + 1 ]_vars

\* the producer phase has just counted an overrun on a full buffer
C2_Witness ==
    /\ pc = "poll"
    /\ fifoCount = FIFO_DIM
    /\ overrun > 0
    /\ totalOverrun > 0

\* C3: the run handed to binFile.write never passes the physical end of
\* fifoData: in every write phase fifoTail + nw <= FIFO_DIM, nw being the
\* number of records written from slot fifoTail on.
C3_NoWrap ==
    /\ pc = "write" =>
         fifoTail + LimitWrite(RunLength(fifoHead, fifoTail, fifoCount))
           <= FIFO_DIM
    /\ lastWrite.tail + lastWrite.nw <= FIFO_DIM

\* a write that ended at the last slot while records waited in the first ones
C3_Witness ==
    /\ lastWrite.nw > 0
    /\ lastWrite.tail + lastWrite.nw = FIFO_DIM
    /\ lastWrite.avail < lastWrite.nw + fifoCount
    /\ pc = "advance"
    /\ fifoTail = 0
    /\ fifoCount > 0

\* C4: one write takes at most MAX_WRITE records even when more lie
\* contiguous from fifoTail; it appends exactly those records to the file,
\* advances fifoTail and lowers fifoCount by exactly their number, and leaves
\* the rest in the buffer, first in line at fifoTail for the next write.
C4_WriteCapped ==
    [][ (pc = "write" /\ pc' \in {"advance", "teardown"})
        => LET avail == Min(fifoCount, FIFO_DIM - fifoTail)
               old   == Len(binFile.data)
               n     == Len(binFile'.data) - old
           IN  /\ n = Min(avail, MAX_WRITE)
               /\ n >= 1
               /\ \A k \in 1 .. n :
                     binFile'.data[old + k] = fifoData[fifoTail + k - 1]
               /\ SubSeq(binFile'.data, 1, old) = binFile.data
               /\ binFile'.pos = binFile.pos + n * SIZEOF_DATA_T
               /\ fifoTail' = (fifoTail + n) % FIFO_DIM
               /\ fifoCount' = fifoCount - n
               /\ UNCHANGED <<fifoData, fifoHead>> ]_vars

\* a write was cut at MAX_WRITE and left contiguous records behind
C4_Witness ==
    /\ pc = "advance"
    /\ lastWrite.avail > MAX_WRITE
    /\ lastWrite.nw = MAX_WRITE
    /\ fifoTail = lastWrite.tail + MAX_WRITE
    /\ fifoCount >= lastWrite.avail - MAX_WRITE

\* C5 as stated: the count decoded from the marker logRecord(data, k) leaves
\* (adc[0] & 0x7FFF, printRecord) is k for every k in 1..0xFFF, and encoding
\* a count above 0xFFF fails.
C5_RoundTripIdentity ==
    /\ (pc = "codec_printed" /\ overrun \in 1 .. OVERRUN_LIMIT)
         => printed = <<"overuns", overrun>>
    /\ (pc = "codec_printed" /\ overrun > OVERRUN_LIMIT) => errMsg # ""

\* C5 amended: the decoded count is k + 1 for every k in 1..0xFFF (the
\* marker counts its own slot as well), the record is tagged as a marker,
\* and logRecord does not fail for any count.
C5_RoundTripPlusOne ==
    /\ (pc = "codec_printed" /\ overrun \in 1 .. OVERRUN_LIMIT)
         => /\ printed = <<"overuns", overrun + 1>>
            /\ nr = overrun + 1
            /\ IsOverrun(fifoData[fifoHead])
    /\ pc \in {"codec_logged", "codec_printed"} => errMsg = ""

\* the largest streak logData passes to logRecord has been encoded and
\* decoded
C5_Witness ==
    /\ pc = "codec_printed"
    /\ overrun = OVERRUN_LIMIT
    /\ printed = <<"overuns", OVERRUN_LIMIT + 1>>


\* C6: the due time advances by exactly LOG_INTERVAL_USEC per iteration,
\* whatever the jitter: after K executions of line 278
\* logTime = initial + K * LOG_INTERVAL_USEC modulo 2^32; the clock reading
\* never enters it.
C6_DueTime == logTime = Add32(logTime0, U32(iter * LOG_INTERVAL_USEC))

\* several deadlines have fired late and the counter has wrapped past 2^32
C6_Witness ==
    /\ iter >= 3
    /\ maxDelta > 0
    /\ delta = 0
    /\ pc = "poll"
    /\ logTime0[1] = Half - 1
    /\ logTime[1] = 0

StallEnded == pc = "advance" /\ stall.n >= 1 /\ stall.empty

\* what C7 says of a run of stall.n busy answers that began on an empty
\* buffer: the first FIFO_DIM iterations each pushed a sample, the later ones
\* pushed nothing and were each counted as an overrun
StallAccount ==
    /\ stall.mark = 0
    /\ stall.real = Min(stall.n, FIFO_DIM)
    /\ fifoCount = Min(stall.n, FIFO_DIM)
    /\ totalOverrun - stall.tot0 =
         (IF stall.n >= FIFO_DIM THEN stall.n - FIFO_DIM ELSE 0)
    /\ overrun - stall.ov0 = totalOverrun - stall.tot0

\* C7 as stated: for a buffer that is empty when the stall begins, after S
\* consecutive busy iterations the first C = FIFO_DIM of them have pushed
\* real records, the later ones nothing, and the overruns counted over the
\* stall are S - C.
C7_StallAnyEmpty == StallEnded => StallAccount

\* C7 amended: the same, for a buffer that is empty and has no overrun
\* streak pending (overrun = 0) when the stall begins.
C7_StallNoPending == (StallEnded /\ stall.ov0 = 0) => StallAccount

\* a stall two iterations longer than the buffer, begun on an empty buffer
\* in mid-session, has just ended its last busy iteration with 2 overruns
C7_Witness ==
    /\ StallEnded
    /\ stall.ov0 = 0
    /\ bytesWritten > 0
    /\ stall.n = FIFO_DIM + 2
    /\ totalOverrun - stall.tot0 = 2

\* C8: as long as the card has been idle at every poll, there is no overrun
\* (totalOverrun = 0, overrun = 0), the occupancy never exceeds 1, and every
\* record written to the file is a sample, not a marker.
C8_AlwaysIdle ==
    ~everBusy =>
        /\ totalOverrun = 0
        /\ overrun = 0
        /\ maxOverrun = 0
        /\ fifoCount <= 1
        /\ maxFifoCount <= 1
        /\ errMsg # "too many overruns"
        /\ \A k \in 1 .. Len(binFile.data) : ~IsOverrun(binFile.data[k])

\* three iterations with an idle card have written three samples
C8_Witness ==
    /\ ~everBusy
    /\ iter >= 3
    /\ Len(binFile.data) >= 3
    /\ maxFifoCount = 1
    /\ pc = "advance"

TooMany == errMsg = "too many overruns"

\* C9 as stated: once the pending streak reaches 0xFFF the session has
\* failed with "too many overruns".
C9_FailsAtLimit == overrun >= OVERRUN_LIMIT => (pc = "halted" /\ TooMany)

\* C9 amended: the session fails with "too many overruns" when the streak
\* exceeds 0xFFF, that is on reaching 0x1000, and not before; the file is
\* then closed and the program halted, so that no step of the loop (no push,
\* no write) can follow.
C9_FailsPastLimit ==
    /\ overrun > OVERRUN_LIMIT => (pc = "halted" /\ TooMany)
    /\ TooMany =>
         /\ overrun = OVERRUN_LIMIT + 1
         /\ pc = "halted"
         /\ ~binFile.open
         /\ ~ENABLED Next

\* the stall has lasted until the streak passed the ceiling
C9_Witness ==
    /\ TooMany
    /\ pc = "halted"
    /\ overrun = OVERRUN_LIMIT + 1
    /\ totalOverrun = OVERRUN_LIMIT + 1
    /\ fifoCount = FIFO_DIM

\* C10 as stated: however the session ends (stop or fatal error), the
\* file's final length is the number of bytes written, not PREALLOCATE_SIZE.
C10_LengthEveryEnd ==
    pc \in {"done", "halted"} => binFile.size = bytesWritten

\* C10 amended: a session ended by the stop signal leaves the file truncated
\* to exactly the bytes written; a session ended by a fatal error is closed
\* by errorHalt without truncate and keeps its extent of PREALLOCATE_SIZE.
C10_LengthAtTeardown ==
    /\ pc = "done" =>
         /\ binFile.size = bytesWritten
         /\ binFile.size = Len(binFile.data) * SIZEOF_DATA_T
    /\ pc = "halted" =>
         /\ binFile.size = PREALLOCATE_SIZE
         /\ ~binFile.open

\* a stopped session whose file holds the records of more than one write
C10_Witness ==
    /\ pc = "done"
    /\ bytesWritten > MAX_WRITE * SIZEOF_DATA_T
    /\ binFile.size = bytesWritten
    /\ binFile.size < PREALLOCATE_SIZE

C12_ShortWriteFatal ==
    /\ [](errMsg = "write binFile failed"
            => /\ pc = "halted"
               /\ ~binFile.open
               /\ fifoTail = lastWrite.tail
               /\ fifoCount >= lastWrite.nw
               /\ ~ENABLED Next)
    /\ [][ (pc = "write" /\ binFile' # binFile
            /\ binFile'.pos # binFile.pos + lastWrite'.nw * SIZEOF_DATA_T)
          => /\ UNCHANGED <<ringVars, pushed, bytesWritten>>
             /\ binFile'.data = binFile.data
             /\ ~binFile'.open
             /\ errMsg' = "write binFile failed"
             /\ pc' = "halted" ]_vars

\* a write came back short after earlier writes had succeeded, with the
\* records of the failed request still counted in the buffer
C12_Witness ==
    /\ errMsg = "write binFile failed"
    /\ pc = "halted"
    /\ bytesWritten > 0
    /\ binFile.pos > bytesWritten
    /\ fifoCount >= 1

\* C13: line 278 moves the due time one interval on and line 281 takes
\* delta = micros() - logTime as a signed 32-bit number; that number is the
\* true distance of the clock from the due time (elapsed time minus iter
\* intervals), also when the 32-bit counter has wrapped.  If it is positive
\* the step halts with "Rate too fast" and leaves the buffer, the pushed
\* records and the file's records untouched; otherwise the iteration goes on
\* to the wait, and the producer and writer phases only run once the clock
\* has reached the due time.
C13_RateTooFast ==
    /\ [](pc \in {"produce", "poll", "write"}
            => /\ elapsed >= iter * LOG_INTERVAL_USEC
               /\ delta = elapsed - iter * LOG_INTERVAL_USEC
               /\ now = Add32(logTime0, U32(elapsed)))
    /\ [](errMsg = "Rate too fast" => pc = "halted" /\ ~ENABLED Next)
    /\ [][ (pc = "advance" /\ pc' # "advance")
          => /\ delta' = elapsed' - iter' * LOG_INTERVAL_USEC
             /\ now' = Add32(logTime0, U32(elapsed'))
             /\ UNCHANGED <<ringVars, pushed, bytesWritten>>
             /\ binFile'.data = binFile.data
             /\ IF delta' > 0
                THEN /\ pc' = "halted"
                     /\ errMsg' = "Rate too fast"
                     /\ ~binFile'.open
                ELSE pc' = "wait" /\ errMsg' = errMsg ]_vars

\* the deadline was missed in a session that started shortly before the
\* counter's wrap, after the counter had wrapped
C13_Witness ==
    /\ errMsg = "Rate too fast"
    /\ pc = "halted"
    /\ logTime0[1] = Half - 1
    /\ now[1] = 0
    /\ delta > 0
    /\ iter >= 2

\* C14: every overrun marker written to the file carries no value read from
\* the ADC, in channel 0 (tag and count) as in the channels 1..ADC_COUNT-1,
\* and its count field lies in 1..0x7FFF, short of the tag bit.
C14_MarkerWithoutSamples ==
    \A k \in 1 .. Len(binFile.data) :
        IsOverrun(binFile.data[k])
        => /\ \A i \in Channels \ {0} :
                 binFile.data[k][i] \notin 0 .. (ANALOG_RANGE - 1)
           /\ BitAnd(binFile.data[k][0], OVERRUN_MASK) \in 1 .. OVERRUN_MASK
           /\ binFile.data[k][0] =
                OVERRUN_TAG + BitAnd(binFile.data[k][0], OVERRUN_MASK)

\* C15: at every point of the loop the records written to the file, followed
\* by the fifoCount records that lie in the buffer from fifoTail on, are
\* exactly the records pushed, in the order of their pushes: the file is a
\* prefix of the pushed sequence, nothing is written twice, skipped,
\* reordered or overwritten while it waits, and fifoCount is the number of
\* records pushed minus the number written.
C15_FifoOrder ==
    /\ fifoCount = Len(pushed) - Len(binFile.data)
    /\ Len(binFile.data) * SIZEOF_DATA_T = bytesWritten
    /\ fifoTail < FIFO_DIM
    /\ binFile.data \o Buffered(fifoTail, fifoCount) = PushedRecs

\* records have been written in several requests, head and tail have gone
\* round the array, and records pushed since are waiting in the buffer
C15_Witness ==
    /\ Len(binFile.data) > FIFO_DIM
    /\ fifoCount >= 2
    /\ fifoHead <= fifoTail
    /\ totalOverrun > 0

\* C16: printRecord's count over the records pushed (1 per data record, the
\* count field per marker) plus the pending streak overrun equals the number
\* of deadlines whose producer phase has run; and the record number
\* printRecord prints for a data record is the zero-based index of the
\* iteration that sampled it.  (Each record pushed is the last of the
\* history in the states that follow its push, so the second part, stated
\* for the last record, covers every record.)
C16_SlotConservation ==
    LET fired == IF pc \in {"wait", "produce"} \/ errMsg = "Rate too fast"
                 THEN iter - 1 ELSE iter
        last  == pushed[Len(pushed)]
    IN  /\ NrPushed + overrun = fired
        /\ (pushed # <<>> /\ ~IsOverrun(last.rec))
             => /\ last.nr = last.it
                /\ PrintRecord(last.nr, last.rec).line
                     = <<"rec", last.it, last.rec>>
                /\ last.rec = [i \in Channels |-> AnalogRead(i, last.it)]

\* a data record was pushed after a marker that stands for several
\* deadlines, and a streak is pending again
C16_Witness ==
    /\ pc = "advance"
    /\ overrun >= 1
    /\ \E k \in 1 .. (Len(pushed) - 1) :
         /\ IsOverrun(pushed[k].rec)
         /\ BitAnd(pushed[k].rec[0], OVERRUN_MASK) >= 3
         /\ ~IsOverrun(pushed[k + 1].rec)

\* C17: whenever the program stands before the write of line 329, the
\* buffer holds at least one record and the request nw = min(MAX_WRITE,
\* fifoHead > fifoTail ? fifoCount : FIFO_DIM - fifoTail) satisfies
\* 1 <= nw <= fifoCount and stays inside the array, so fifoCount - nw does
\* not go below zero; at every point fifoCount is congruent to
\* fifoHead - fifoTail modulo FIFO_DIM, and before a write fifoHead =
\* fifoTail means a full buffer.
C17_WriteNonEmpty ==
    /\ (fifoHead - fifoTail) % FIFO_DIM = fifoCount % FIFO_DIM
    /\ pc = "write"
         => LET nw == LimitWrite(RunLength(fifoHead, fifoTail, fifoCount))
            IN  /\ fifoCount >= 1
                /\ 1 <= nw
                /\ nw <= fifoCount
                /\ fifoTail + nw <= FIFO_DIM
                /\ fifoCount - nw = CommitCount(fifoCount, nw)
                /\ fifoHead = fifoTail => fifoCount = FIFO_DIM

\* a write is due for a buffer whose records lie round the end of the
\* array: the request stops at the array end, short of fifoCount
C17_Witness ==
    /\ pc = "write"
    /\ fifoHead < fifoTail
    /\ fifoHead > 0
    /\ LimitWrite(RunLength(fifoHead, fifoTail, fifoCount)) < fifoCount

\* C18: when the loop has been left on the stop signal, maxFifoCount, which
\* line 337 samples only in iterations that find the card idle, equals the
\* largest value fifoCount has held at any point of the session, busy
\* iterations included.
C18_TrueMaximum ==
    pc \in {"teardown", "done"} => maxFifoCount = peakCount

\* the loop was left after a stall had filled the buffer, with the buffer
\* below its peak by then
C18_Witness ==
    /\ pc = "done"
    /\ everBusy
    /\ peakCount = FIFO_DIM
    /\ maxFifoCount = FIFO_DIM
    /\ totalOverrun > 0
    /\ fifoCount < FIFO_DIM - 1

\* C20: when the loop has been left on the stop signal, every record pushed
\* has been written to the file: fifoCount = 0 at teardown and after it.
C20_DrainedAtTeardown ==
    pc \in {"teardown", "done"}
    => /\ fifoCount = 0
       /\ Len(binFile.data) = Len(pushed)

\* C19: once the stop signal is set the session comes to an end, whatever
\* the card answers: a successful write in an iteration that finds the card
\* idle leads to the teardown, a failure halts the program, and while the
\* card stays busy the buffer fills and the streak grows until "too many
\* overruns" halts it; a session that has ended on a halt names one of the
\* three fatal errors.
C19_StopEndsSession ==
    /\ serialAvail ~> pc \in {"done", "halted"}
    /\ [](pc = "halted"
            => errMsg \in {"Rate too fast", "too many overruns",
                           "write binFile failed"})
    /\ [][ (serialAvail /\ pc = "write" /\ pc' # "write")
          => pc' \in {"teardown", "halted"} ]_vars

\* the stop signal was set from the first iterations on, the card stayed
\* busy, and the session ended on the overrun ceiling
C19_Witness ==
    /\ serialAvail
    /\ pc = "halted"
    /\ errMsg = "too many overruns"
    /\ bytesWritten = 0
    /\ iter = FIFO_DIM + OVERRUN_LIMIT + 1

====
